---- MODULE Spec2Model ----
(***************************************************************************)
(* Model of the phase-coupled oscillator core of you_n_i_verse:            *)
(* core/consciousness_oscillator.py (ConsciousnessOscillator) and the      *)
(* parts of core/ern_controller.py that drive it (ERNController.update,    *)
(* FeedbackProcessor.process_feedback).                                    *)
(*                                                                         *)
(* Reals are fixed-point integers: the real x is the integer x * Scale,    *)
(* rounded down.  numpy arrays are objects on a heap, so that "+=" (which  *)
(* writes into the array it is applied to) and "=" (which rebinds the      *)
(* name to a new array) keep the difference they have in the source.       *)
(***************************************************************************)
EXTENDS Integers, Sequences, FiniteSets, TLC

(***************************************************************************)
(* Numbers                                                                 *)
(***************************************************************************)
\* fixed-point unit: the float 1.0
Scale == 1000
\* np.pi, in fixed point
Pi == 3142
\* 2 * np.pi
TwoPi == 2 * Pi

\* self.n_centers = 9
NCenters == 9
Idx == 0 .. (NCenters - 1)

\* a float product
Mul(a, b) == (a * b) \div Scale

\* Python's int(a / b): the quotient truncated toward zero (b # 0)
TruncDiv(a, b) ==
  IF (a >= 0) = (b > 0) THEN (IF a >= 0 THEN a \div b ELSE (-a) \div (-b))
  ELSE -((IF a >= 0 THEN a ELSE -a) \div (IF b >= 0 THEN b ELSE -b))

\* the sine of an angle of [0, pi] (Bhaskara's rational approximation
\* 16 x (pi - x) / (5 pi^2 - 4 x (pi - x)), numerator and denominator
\* divided by 64 to stay within the machine integers)
SinHalfTurn(x) ==
  LET p == x * (Pi - x)
  IN  ((p \div 4) * Scale) \div ((5 * Pi * Pi - 4 * p) \div 64)

\* np.sin, odd and periodic
Sin(x) ==
  LET r == x % TwoPi
  IN  IF r <= Pi THEN SinHalfTurn(r) ELSE -SinHalfTurn(r - Pi)

\* np.cos
Cos(x) == Sin(x + (Pi \div 2))

RECURSIVE SqrtBetween(_, _, _)
\* the largest r of lo .. hi with r * r <= x, by bisection
SqrtBetween(x, lo, hi) ==
  IF lo = hi THEN lo
  ELSE LET mid == (lo + hi + 1) \div 2
       IN  IF mid * mid <= x THEN SqrtBetween(x, mid, hi)
           ELSE SqrtBetween(x, lo, mid - 1)

\* the square root of re^2 + im^2 (np.abs of a complex number), rounded down
Sqrt(x) == SqrtBetween(x, 0, 2 * Scale)

RECURSIVE SumOver(_, _)
\* the sum of f over the finite index set S
SumOver(f, S) ==
  IF S = {} THEN 0
  ELSE LET i == CHOOSE j \in S : TRUE IN f[i] + SumOver(f, S \ {i})

(***************************************************************************)
(* CENTERS and CHANNELS                                                    *)
(***************************************************************************)
Fields == {"Body", "Mind", "Heart"}

CENTERS ==
  [i \in Idx |->
     IF i \in 0 .. 2 THEN [field |-> "Mind", frequency |-> 1330]
     ELSE IF i \in 3 .. 5 THEN [field |-> "Heart", frequency |-> 3330]
     ELSE [field |-> "Body", frequency |-> 1000]]

\* (center1, center2, coupling_strength)
CHANNELS ==
  << <<0, 1, 800>>, <<1, 2, 800>>, <<2, 3, 700>>, <<3, 4, 900>>,
     <<3, 5, 900>>, <<3, 6, 900>>, <<4, 6, 600>>, <<5, 6, 800>>,
     <<6, 7, 700>>, <<6, 8, 700>>, <<7, 3, 600>>, <<8, 5, 600>>,
     <<8, 7, 600>>, <<2, 4, 500>>, <<2, 5, 500>>, <<2, 6, 500>>,
     <<1, 7, 400>> >>

\* the index lists of calculate_field_coherence and get_dominant_field
BodyIdx == {6, 7, 8}
MindIdx == {0, 1, 2}
HeartIdx == {3, 4, 5}

(***************************************************************************)
(* The heap of numpy arrays.  An array is a function on Idx; a reference   *)
(* is a key of the heap, and NoRef is Python's None.                       *)
(***************************************************************************)
NoRef == 0

\* the array f, every component computed once (a function constructor by
\* itself is evaluated anew at each application)
Array(f) == f @@ <<>>

\* a reference no array of h has
NewRef(h) == CHOOSE r \in 1 .. (Cardinality(DOMAIN h) + 1) : r \notin DOMAIN h

\* h with a new array of value v at reference r
Alloc(h, r, v) == Array([x \in (DOMAIN h) \cup {r} |-> IF x = r THEN v ELSE h[x]])

\* F of the value of v, v computed first and once
Then(v, F(_)) == CHOOSE y \in {F(x) : x \in {v}} : TRUE

\* float("nan"), which no comparison and no arithmetic turns into a number
NaN == -1000000

\* no component of p over idx is nan
AllFinite(p, idx) == \A i \in idx : p[i] # NaN

RECURSIVE SumTo(_, _)
\* f[0] + ... + f[k]
SumTo(f, k) == IF k < 0 THEN 0 ELSE f[k] + SumTo(f, k - 1)

(***************************************************************************)
(* ConsciousnessOscillator                                                 *)
(***************************************************************************)
\* an array of nan
NaNArray == Array([i \in Idx |-> NaN])

\* np.zeros((self.n_centers, self.n_centers))
ZeroMatrix == Array([i \in Idx |-> Array([j \in Idx |-> 0])])

RECURSIVE AddChannels(_, _, _)
\* the loop of _build_coupling_matrix from channel k on
AddChannels(K, k, cs) ==
  IF k > Len(CHANNELS) THEN K
  ELSE LET c1 == CHANNELS[k][1]
           c2 == CHANNELS[k][2]
           strength == CHANNELS[k][3]
           K1 == [K EXCEPT ![c1][c2] = Mul(strength, cs)]
           K2 == [K1 EXCEPT ![c2][c1] = Mul(strength, cs)]
       IN  AddChannels(K2, k + 1, cs)

RECURSIVE AddChannelsOneWay(_, _, _)
AddChannelsOneWay(K, k, cs) ==
  IF k > Len(CHANNELS) THEN K
  ELSE AddChannelsOneWay(
         [K EXCEPT ![CHANNELS[k][1]][CHANNELS[k][2]] = Mul(CHANNELS[k][3], cs)],
         k + 1, cs)

\* _build_coupling_matrix without the mirrored assignment
build_coupling_matrix_one_way(coupling_strength) ==
  AddChannelsOneWay(ZeroMatrix, 1, coupling_strength)

\* _build_coupling_matrix with the weights left unscaled
build_coupling_matrix_unscaled(coupling_strength) ==
  AddChannels(ZeroMatrix, 1, Scale)

\* ConsciousnessOscillator._build_coupling_matrix
build_coupling_matrix(coupling_strength) ==
  AddChannels(ZeroMatrix, 1, coupling_strength)

\* K[i, ...] with a Python int i on an axis of length n: a negative i counts
\* from the end, an i outside -n .. n - 1 raises IndexError
InRange(i, n) == i >= -n /\ i < n
Normalized(i, n) == IF i < 0 THEN i + n ELSE i

RECURSIVE AddChannelsOf(_, _, _, _)
\* the loop of _build_coupling_matrix over the channel list channels, from
\* channel k on; the result is the matrix and the exception raised
AddChannelsOf(channels, K, k, cs) ==
  IF k > Len(channels) THEN [matrix |-> K, error |-> "none"]
  ELSE LET c1 == channels[k][1]
           c2 == channels[k][2]
           strength == channels[k][3]
       IN  IF ~(InRange(c1, NCenters) /\ InRange(c2, NCenters))
           THEN [matrix |-> K, error |-> "IndexError"]
           ELSE LET i == Normalized(c1, NCenters)
                    j == Normalized(c2, NCenters)
                    K1 == [K EXCEPT ![i][j] = Mul(strength, cs)]
                    K2 == [K1 EXCEPT ![j][i] = Mul(strength, cs)]
                IN  AddChannelsOf(channels, K2, k + 1, cs)

\* ConsciousnessOscillator.__init__ with the module's CHANNELS list being
\* channels: the object and the exception raised (no object when one is)
construct_with(channels, coupling_strength) ==
  LET b == AddChannelsOf(channels, ZeroMatrix, 1, coupling_strength)
  IN  [error |-> b.error,
       constructed |-> b.error = "none",
       coupling_matrix |-> IF b.error = "none" THEN b.matrix ELSE ZeroMatrix]

\* kuramoto_derivatives reading coupling_strength instead of the matrix
kuramoto_derivatives_live(self, phases) ==
  LET K == build_coupling_matrix(self.coupling_strength)
  IN  Array([i \in Idx |->
         self.natural_frequencies[i]
         + SumTo([j \in Idx |->
                    IF i # j THEN Mul(K[i][j], Sin(phases[j] - phases[i]))
                    ELSE 0], NCenters - 1)])

\* ConsciousnessOscillator.kuramoto_derivatives
kuramoto_derivatives(self, phases) ==
  IF ~AllFinite(phases, Idx) THEN NaNArray
  ELSE Array([i \in Idx |->
         self.natural_frequencies[i]
         + SumTo([j \in Idx |->
                    IF i # j
                    THEN Mul(self.coupling_matrix[i][j], Sin(phases[j] - phases[i]))
                    ELSE 0], NCenters - 1)])

\* the phases of a stage taken a whole dt along k, whatever the stage
shifted_whole(p, k, dt, d) == Array([i \in Idx |-> p[i] + ((dt * k[i]) \div Scale)])

\* p + ((dt / d) * k), the phases a stage of RK4 is evaluated at
shifted(p, k, dt, d) == Array([i \in Idx |-> p[i] + ((dt * k[i]) \div (d * Scale))])

\* a stage of RK4: self.kuramoto_derivatives(self.phases + (dt / d) * k)
stage(self, p, k, dt, d) ==
  Then(shifted(p, k, dt, d), LAMBDA q : kuramoto_derivatives(self, q))

\* the increment with the four stages weighted alike
rk4_increment_unweighted(self, p, dt) ==
  IF dt = NaN \/ ~AllFinite(p, Idx) THEN NaNArray
  ELSE
    Then(kuramoto_derivatives(self, p), LAMBDA k1 :
    Then(stage(self, p, k1, dt, 2), LAMBDA k2 :
    Then(stage(self, p, k2, dt, 2), LAMBDA k3 :
    Then(stage(self, p, k3, dt, 1), LAMBDA k4 :
      Array([i \in Idx |->
               (dt * (k1[i] + k2[i] + k3[i] + k4[i])) \div (6 * Scale)])))))

\* the RK4 increment (dt/6) * (k1 + 2 k2 + 2 k3 + k4) of step
rk4_increment(self, p, dt) ==
  IF dt = NaN \/ ~AllFinite(p, Idx) THEN NaNArray
  ELSE
    Then(kuramoto_derivatives(self, p), LAMBDA k1 :
    Then(stage(self, p, k1, dt, 2), LAMBDA k2 :
    Then(stage(self, p, k2, dt, 2), LAMBDA k3 :
    Then(stage(self, p, k3, dt, 1), LAMBDA k4 :
      Array([i \in Idx |->
               (dt * (k1[i] + 2 * k2[i] + 2 * k3[i] + k4[i])) \div (6 * Scale)])))))

\* self.phases % (2 * np.pi), one component
wrap(x) == IF x = NaN THEN NaN ELSE x % TwoPi

\* ConsciousnessOscillator.step: "+=" writes into the array self.phases
\* refers to, then "=" binds self.phases to the new, wrapped array
step(self, h, dt) ==
  Then(rk4_increment(self, h[self.phases], dt), LAMBDA inc :
  Then(Array([i \in Idx |-> IF inc[i] = NaN THEN NaN
                            ELSE h[self.phases][i] + inc[i]]), LAMBDA summed :
  Then([h EXCEPT ![self.phases] = summed], LAMBDA h1 :
    LET r == NewRef(h1)
    IN  [self |-> [self EXCEPT !.phases = r],
         heap |-> Alloc(h1, r, Array([i \in Idx |-> wrap(summed[i])]))])))

\* the order parameter with np.sum in the place of np.mean
order_parameter_sum(p, idx) ==
  LET re == SumOver([i \in idx |-> Cos(p[i])], idx)
      im == SumOver([i \in idx |-> Sin(p[i])], idx)
  IN  IF ~AllFinite(p, idx) THEN NaN ELSE Sqrt(re * re + im * im)

\* np.abs(np.mean(np.exp(1j * phases[idx])))
order_parameter(p, idx) ==
  LET n == Cardinality(idx)
      re == SumOver([i \in idx |-> Cos(p[i])], idx) \div n
      im == SumOver([i \in idx |-> Sin(p[i])], idx) \div n
  IN  IF ~AllFinite(p, idx) THEN NaN ELSE Sqrt(re * re + im * im)

\* ConsciousnessOscillator.calculate_coherence
calculate_coherence(self, h) == order_parameter(h[self.phases], Idx)

\* ConsciousnessOscillator.get_field_activation
get_field_activation(self, h) ==
  Array([i \in Idx |-> IF h[self.phases][i] = NaN THEN NaN
                        ELSE (Sin(h[self.phases][i]) + Scale) \div 2])

\* np.mean(activations[idx])
mean_of(a, idx) ==
  IF ~AllFinite(a, idx) THEN NaN
  ELSE SumOver([i \in idx |-> a[i]], idx) \div Cardinality(idx)

\* the insertion order of the field_strengths dict
FieldOrder == <<"Body", "Mind", "Heart">>

\* a > b on floats: False when either is nan
Greater(a, b) == a # NaN /\ b # NaN /\ a > b

RECURSIVE MaxFrom(_, _, _, _)
\* Python's max(keys, key=f.get) from position k on: a later key replaces
\* the best one only when its value is strictly greater
MaxFrom(keys, f, k, best) ==
  IF k > Len(keys) THEN best
  ELSE MaxFrom(keys, f, k + 1, IF Greater(f[keys[k]], f[best]) THEN keys[k] ELSE best)

\* max keeping the last of the greatest keys
py_max_last(keys, f) ==
  LET m == CHOOSE v \in {f[keys[k]] : k \in 1 .. Len(keys)} :
             \A k \in 1 .. Len(keys) : f[keys[k]] <= v
      last == CHOOSE k \in 1 .. Len(keys) :
                f[keys[k]] = m /\ \A l \in (k + 1) .. Len(keys) : f[keys[l]] # m
  IN  keys[last]

\* max returning the first key whatever the values
py_max_first(keys, f) == keys[1]

\* max(field_strengths, key=field_strengths.get)
py_max(keys, f) == MaxFrom(keys, f, 2, keys[1])

\* ConsciousnessOscillator.get_dominant_field
get_dominant_field(self, h) ==
  LET activations == get_field_activation(self, h)
      field_strengths == Array([f \in Fields |->
                            IF f = "Body" THEN mean_of(activations, BodyIdx)
                            ELSE IF f = "Mind" THEN mean_of(activations, MindIdx)
                            ELSE mean_of(activations, HeartIdx)])
  IN  [dominant |-> py_max(FieldOrder, field_strengths),
       field_strengths |-> field_strengths]

\* np.angle of re + im j: atan2(im, re) in (-pi, pi], by the approximation
\* atan(t) = t pi/4 + 0.273 t (1 - t) on [0, 1]; np.angle(0) is 0
Angle(re, im) ==
  LET ax == IF re < 0 THEN -re ELSE re
      ay == IF im < 0 THEN -im ELSE im
      hi == IF ax > ay THEN ax ELSE ay
      lo == IF ax > ay THEN ay ELSE ax
      t  == (lo * Scale) \div hi
      a0 == Mul(t, Pi \div 4) + Mul(Mul(273, t), Scale - t)
      a1 == IF ay > ax THEN (Pi \div 2) - a0 ELSE a0
      a2 == IF re < 0 THEN Pi - a1 ELSE a1
  IN  IF hi = 0 THEN 0 ELSE IF im < 0 THEN -a2 ELSE a2

\* np.angle(np.mean(np.exp(1j * phases[idx])))
mean_angle(p, idx) ==
  LET n == Cardinality(idx)
  IN  IF ~AllFinite(p, idx) THEN NaN ELSE
      Angle(SumOver([i \in idx |-> Cos(p[i])], idx) \div n,
            SumOver([i \in idx |-> Sin(p[i])], idx) \div n)

\* 1 - abs(a - b) / np.pi
phase_alignment(a, b) ==
  IF a = NaN \/ b = NaN THEN NaN ELSE
  Scale - (((IF a >= b THEN a - b ELSE b - a) * Scale) \div Pi)

\* ConsciousnessOscillator.calculate_field_coherence
calculate_field_coherence(self, h) ==
  LET p == h[self.phases]
      body_avg == mean_angle(p, BodyIdx)
      mind_avg == mean_angle(p, MindIdx)
      heart_avg == mean_angle(p, HeartIdx)
  IN  [body |-> order_parameter(p, BodyIdx),
       mind |-> order_parameter(p, MindIdx),
       heart |-> order_parameter(p, HeartIdx),
       body_mind |-> phase_alignment(body_avg, mind_avg),
       body_heart |-> phase_alignment(body_avg, heart_avg),
       mind_heart |-> phase_alignment(mind_avg, heart_avg),
       global |-> calculate_coherence(self, h)]

\* Python's a % b on integers (b # 0): the result has the sign of b
PyMod(a, b) == IF b > 0 THEN a % b ELSE -((-a) % (-b))

\* the appends of simulate, the time left out at step 0
record_history_untimed(self, h, step_i, dt) ==
  LET r == NewRef(h)
  IN  [self |-> [self EXCEPT
                   !.phase_history = Append(@, r),
                   !.coherence_history = Append(@, calculate_coherence(self, h)),
                   !.time_history = IF step_i = 0 THEN @
                                    ELSE Append(@, step_i * dt)],
       heap |-> Alloc(h, r, h[self.phases])]

\* the three appends of simulate, with the phase array itself appended
record_history_no_copy(self, h, step_i, dt) ==
  [self |-> [self EXCEPT
               !.phase_history = Append(@, self.phases),
               !.coherence_history = Append(@, calculate_coherence(self, h)),
               !.time_history = Append(@, step_i * dt)],
   heap |-> h]

\* the three appends of simulate, in iteration step_i
record_history(self, h, step_i, dt) ==
  LET r == NewRef(h)
  IN  [self |-> [self EXCEPT
                   !.phase_history = Append(@, r),
                   !.coherence_history = Append(@, calculate_coherence(self, h)),
                   !.time_history = Append(@, step_i * dt)],
       heap |-> Alloc(h, r, h[self.phases])]

\* the record taken when step + 1 is a multiple of record_interval
records_at_shifted(step_i, record_interval) ==
  PyMod(step_i + 1, record_interval) = 0

\* "if step % record_interval == 0" (record_interval # 0)
records_at(step_i, record_interval) == PyMod(step_i, record_interval) = 0

\* one iteration of the loop of simulate: step, then the record when due;
\* st is the oscillator, the heap and the exception raised so far
simulate_iteration(st, step_i, dt, record_interval) ==
  IF st.error # "none" THEN st
  ELSE Then(step(st.self, st.heap, dt), LAMBDA s1 :
         IF record_interval = 0
         THEN [self |-> s1.self, heap |-> s1.heap, error |-> "ZeroDivisionError"]
         ELSE IF records_at(step_i, record_interval)
         THEN Then(record_history(s1.self, s1.heap, step_i, dt), LAMBDA s2 :
                [self |-> s2.self, heap |-> s2.heap, error |-> "none"])
         ELSE [self |-> s1.self, heap |-> s1.heap, error |-> "none"])

RECURSIVE simulate_loop(_, _, _, _, _)
\* "for step in range(n_steps)": the iterations lo .. hi - 1 in order, the
\* range halved so that the evaluation stays shallow
simulate_loop(st, lo, hi, dt, record_interval) ==
  IF hi <= lo THEN st
  ELSE IF hi = lo + 1 THEN simulate_iteration(st, lo, dt, record_interval)
  ELSE Then(simulate_loop(st, lo, (lo + hi) \div 2, dt, record_interval),
            LAMBDA first :
              simulate_loop(first, (lo + hi) \div 2, hi, dt, record_interval))

\* n_steps = int(duration / dt)
n_steps_of(duration, dt) == TruncDiv(duration, dt)

\* ConsciousnessOscillator.simulate
simulate(self, h, duration, dt, record_interval) ==
  IF dt = 0 THEN [self |-> self, heap |-> h, error |-> "ZeroDivisionError"]
  ELSE IF dt = NaN THEN [self |-> self, heap |-> h, error |-> "ValueError"]
  ELSE simulate_loop([self |-> self, heap |-> h, error |-> "none"],
                     0, n_steps_of(duration, dt), dt, record_interval)

\* a view of element i of self.phases in the place of a float of its own
phase_view(self, h, i) == [array |-> self.phases, index |-> i]

\* float(self.phases[i]): a float object of its own with the element's value
phase_float(self, h, i) == [value |-> h[self.phases][i]]

\* the number an exported phase reads as over the heap h
Read(cell, h) ==
  IF "array" \in DOMAIN cell THEN h[cell.array][cell.index] ELSE cell.value

\* the arrays an exported state dict refers to
StateRefs(state) ==
  {state.centers[i].phase.array :
     i \in {j \in Idx : "array" \in DOMAIN state.centers[j].phase}}

\* ConsciousnessOscillator.get_state_vector (the timestamp left out)
get_state_vector(self, h) ==
  LET activations == get_field_activation(self, h)
      coherence == calculate_field_coherence(self, h)
      d == get_dominant_field(self, h)
  IN  [centers |-> [i \in Idx |->
                      [phase |-> phase_float(self, h, i),
                       activation |-> activations[i],
                       field |-> CENTERS[i].field,
                       frequency |-> CENTERS[i].frequency]],
       coherence |-> coherence,
       dominant_field |-> d.dominant,
       field_strengths |-> d.field_strengths]

\* ConsciousnessOscillator.__init__, the random phases given as random_phases
new_oscillator(h, base_frequency, coupling_strength, random_phases) ==
  LET r == NewRef(h)
  IN  [self |-> [n_centers |-> NCenters,
                 base_freq |-> base_frequency,
                 coupling_strength |-> coupling_strength,
                 phases |-> r,
                 natural_frequencies |->
                   Array([i \in Idx |-> Mul(CENTERS[i].frequency, base_frequency)]),
                 coupling_matrix |-> build_coupling_matrix(coupling_strength),
                 phase_history |-> <<>>,
                 coherence_history |-> <<>>,
                 time_history |-> <<>>],
       heap |-> Alloc(h, r, random_phases)]

(***************************************************************************)
(* ERNState, ImbalanceDetector, FieldRuleTable, FeedbackProcessor and      *)
(* ERNController.  The controller's oscillator (ERNState.oscillator) is    *)
(* passed beside the state, as "oscillator".                               *)
(***************************************************************************)
\* an empty dict
EmptyDict == [k \in {} |-> 0]

\* ERNState.__init__ (the fields the oscillator loop reads or writes)
new_ern_state ==
  [birth_data |-> "None",
   natal_chart |-> "None",
   field_phases |-> NoRef,
   field_amplitudes |-> EmptyDict,
   coherence |-> 0,
   dominant_field |-> "None",
   gan_params |-> EmptyDict,
   llm_params |-> EmptyDict,
   ui_params |-> EmptyDict,
   feedback_history |-> <<>>,
   ru_weights |-> [progress |-> 1000, friction |-> -500, coherence |-> 1500,
                   feasibility |-> 1000, risk |-> -300, synergy |-> 1200],
   imbalance_flags |-> [field_dominance |-> FALSE, coherence_drop |-> FALSE,
                        shadow_spike |-> FALSE, unity_collapse |-> FALSE]]

\* ImbalanceDetector.detect_imbalances
detect_imbalances(state, oscillator, h) ==
  LET activations == get_field_activation(oscillator, h)
  IN  [field_dominance |-> \E i \in Idx : activations[i] > 800,
       coherence_drop |-> state.coherence < 300,
       shadow_spike |-> FALSE,
       unity_collapse |-> \A i \in Idx : activations[i] < 200]

\* FieldRuleTable.generate_output_params (the numeric parameters)
generate_output_params(state) ==
  LET c == state.coherence
      f == state.dominant_field
  IN  [gan |-> [style_strength |-> c, clarity |-> c,
                color_saturation |-> 500 + Mul(500, c)],
       llm |-> [temperature |-> 1000 - Mul(700, c),
                complexity |-> IF f = "Body" THEN 300
                               ELSE IF f = "Mind" THEN 800 ELSE 500],
       ui |-> [motion_speed |-> 500 + Mul(500, c),
               contrast |-> 300 + Mul(700, c),
               visual_complexity |-> 1000 - c]]

\* FeedbackProcessor._update_ru_weights
update_ru_weights(feedback, current_weights) ==
  LET avg_valence == (feedback.emotional + feedback.intellectual + feedback.somatic) \div 3
  IN  [k \in DOMAIN current_weights |->
         IF k \in {"progress", "coherence", "synergy", "feasibility"}
         THEN current_weights[k] + Mul(100, avg_valence)
         ELSE current_weights[k] - Mul(100, avg_valence)]

\* FeedbackProcessor.process_feedback
process_feedback(feedback, state, oscillator) ==
  [state |-> [state EXCEPT
                !.feedback_history =
                   Append(@, [feedback |-> feedback,
                              dominant_field |-> state.dominant_field,
                              coherence |-> state.coherence]),
                !.ru_weights = update_ru_weights(feedback, state.ru_weights)],
   oscillator |-> IF feedback.emotional < -500
                  THEN [oscillator EXCEPT !.coupling_strength = Mul(@, 1100)]
                  ELSE oscillator]

\* ChartDecoder.decode_natal_chart: the same seeds for every birth_data
decode_natal_chart(birth_data) ==
  [i \in Idx |-> [phase |-> 0, amplitude |-> 500]]

\* initialize writing the seeds' phases into the oscillator's phases
initialize_seeding(state, oscillator, h, birth_data) ==
  LET chart == decode_natal_chart(birth_data)
  IN  [state |-> [state EXCEPT !.birth_data = birth_data,
                               !.natal_chart = chart],
       oscillator |-> oscillator,
       heap |-> [h EXCEPT ![oscillator.phases] =
                   Array([i \in Idx |-> chart[i].phase])]]

\* ERNController.initialize: the seeds are stored and applied to nothing
initialize(state, oscillator, h, birth_data) ==
  [state |-> [state EXCEPT !.birth_data = birth_data,
                           !.natal_chart = decode_natal_chart(birth_data)],
   oscillator |-> oscillator,
   heap |-> h]

\* update with the flags detected before the state is refreshed
update_flags_first(state, oscillator, h, dt) ==
  Then(step(oscillator, h, dt), LAMBDA s :
  Then([state EXCEPT !.imbalance_flags = detect_imbalances(state, s.self, s.heap)],
       LAMBDA st1 :
  Then([st1 EXCEPT
          !.field_phases = s.self.phases,
          !.field_amplitudes = get_field_activation(s.self, s.heap),
          !.coherence = calculate_field_coherence(s.self, s.heap).global,
          !.dominant_field = get_dominant_field(s.self, s.heap).dominant],
       LAMBDA st2 :
  Then(generate_output_params(st2), LAMBDA output_params :
    [state |-> [st2 EXCEPT !.gan_params = output_params.gan,
                           !.llm_params = output_params.llm,
                           !.ui_params = output_params.ui],
     oscillator |-> s.self,
     heap |-> s.heap]))))

\* ERNController.update: field_phases is bound to the oscillator's own array
update(state, oscillator, h, dt) ==
  Then(step(oscillator, h, dt), LAMBDA s :
  Then([state EXCEPT
          !.field_phases = s.self.phases,
          !.field_amplitudes = get_field_activation(s.self, s.heap),
          !.coherence = calculate_field_coherence(s.self, s.heap).global,
          !.dominant_field = get_dominant_field(s.self, s.heap).dominant],
       LAMBDA st1 :
  Then([st1 EXCEPT !.imbalance_flags = detect_imbalances(st1, s.self, s.heap)],
       LAMBDA st2 :
  Then(generate_output_params(st2), LAMBDA output_params :
    [state |-> [st2 EXCEPT !.gan_params = output_params.gan,
                           !.llm_params = output_params.llm,
                           !.ui_params = output_params.ui],
     oscillator |-> s.self,
     heap |-> s.heap]))))

(***************************************************************************)
(* The system: the organism's oscillator ("main": ERNOrganism.oscillator,  *)
(* ern_organism["oscillator"]) and the controller with its own oscillator  *)
(* ("ctl": ERNController.state.oscillator).                                *)
(***************************************************************************)
VARIABLES
  osc,    \* the two ConsciousnessOscillator objects
  heap,   \* the numpy arrays they and the controller refer to
  ern,    \* the controller's ERNState
  ret,    \* the last call: its name, receiver, arguments and result
  calls,  \* per oscillator and call made on it, the dt of each step() it ran
  seed,   \* per oscillator, what it was constructed with
  snapshot, \* the state dict the caller got last and keeps
  loop,   \* ERNController.running and where the thread in run_loop is
  api     \* api.py: the global ern_organism, the requests being handled on
          \* the event loop, and the last response

vars == <<osc, heap, ern, ret, calls, seed, snapshot, loop, api>>

OscIds == {"main", "ctl"}

\* bounds of the model: the calls (step, simulate, update, receive_feedback)
\* of one run, and of one run that is also observed
MaxOps == 3
MaxObservedOps == 2
MaxScenarioOps == 2
MaxNonFiniteOps == 2
MaxKeptOps == 2
MaxRuns == 1
MaxSharedOps == 2
MaxRequests == 4

\* phases[i] by the field of center i
GroupPhases(mind, heart, body) ==
  [i \in Idx |-> IF i \in MindIdx THEN mind ELSE IF i \in HeartIdx THEN heart ELSE body]

MixedPhases ==
  [i \in Idx |-> <<100, 900, 2000, 3000, 4100, 5000, 5900, 6200, 300>>[i + 1]]

\* the np.random.uniform(0, 2*np.pi, 9) draws of the model
SeedPhases ==
  { MixedPhases,
    GroupPhases(0, 0, 0),
    GroupPhases(0, Pi \div 2, 0),
    GroupPhases(0, 0, Pi \div 2),
    GroupPhases(Pi \div 2, Pi \div 2, 3 * (Pi \div 2)),
    GroupPhases(Pi \div 2, 3 * (Pi \div 2), Pi \div 2),
    GroupPhases(3 * (Pi \div 2), Pi \div 2, Pi \div 2) }

\* the coupling_strength arguments of the model
SeedCoupling == {0, 300}

\* the dt arguments of step
StepDts == {100, -250}

\* the dt arguments of update
UpdateDts == {100}

\* the (duration, dt, record_interval) arguments of simulate
SimArgs == { <<500, 100, 2>>, <<100, 100, 1>>, <<300, 100, 0>>, <<200, 0, 1>> }

\* the feedback dicts
Feedbacks ==
  { [emotional |-> -1000, intellectual |-> 0, somatic |-> 0],
    [emotional |-> 500, intellectual |-> 500, somatic |-> 500] }

\* the arrays some object still refers to
Live(oscs, e) ==
  UNION { {oscs[o].phases} \cup {oscs[o].phase_history[k] :
                                   k \in 1 .. Len(oscs[o].phase_history)} :
          o \in OscIds }
  \cup (IF e.field_phases = NoRef THEN {} ELSE {e.field_phases})
  \cup (IF snapshot.taken THEN StateRefs(snapshot.state) ELSE {})

\* the heap without the arrays nothing refers to any more
Collect(oscs, e, h) == Array([r \in Live(oscs, e) |-> h[r]])

Ops == Len(calls["main"]) + Len(calls["ctl"]) + Len(ern.feedback_history)

\* the phases the controller's oscillator draws
CtlSeedPhases == {MixedPhases}

\* the phases drawn by the oscillators built without coupling
UncoupledSeedPhases == {MixedPhases, GroupPhases(0, 0, 0)}

\* the phase arguments of kuramoto_derivatives
ProbePhases == {MixedPhases, GroupPhases(0, Pi \div 2, 0)}

\* the state after construction: main built with (base_frequency bf,
\* coupling_strength cs, phases p1), ctl with ERNState's defaults and p2
ConstructedWith(bf, p1, cs, p2) ==
  LET m == new_oscillator(EmptyDict, bf, cs, p1)
      c == new_oscillator(m.heap, 1000, 300, p2)
  IN  /\ osc = [o \in OscIds |-> IF o = "main" THEN m.self ELSE c.self]
      /\ heap = c.heap
      /\ ern = new_ern_state
      /\ ret = [op |-> "init"]
      /\ snapshot = [taken |-> FALSE]
      /\ loop = [pc |-> "idle", running |-> FALSE, step |-> 0, steps |-> 0,
                 duration |-> 0, dt |-> 0, runs |-> 0, stopped_at |-> "never"]
      /\ api = [organism |-> [initialized |-> FALSE],
                slots |-> [k \in {1, 2} |-> [op |-> "idle"]],
                response |-> [op |-> "none"],
                served |-> 0]
      /\ calls = [o \in OscIds |-> <<>>]
      /\ seed = [o \in OscIds |->
                   LET x == IF o = "main" THEN m ELSE c
                   IN  [phases |-> x.heap[x.self.phases],
                        natural_frequencies |-> x.self.natural_frequencies,
                        coupling_matrix |-> x.self.coupling_matrix]]

\* the same with main's base_frequency 1.0
Constructed(p1, cs, p2) == ConstructedWith(1000, p1, cs, p2)

Init ==
  \E p1 \in SeedPhases, cs \in SeedCoupling, p2 \in CtlSeedPhases :
    /\ cs = 0 => p1 \in UncoupledSeedPhases
    /\ Constructed(p1, cs, p2)

RECURSIVE Repeat(_, _)
\* n copies of x
Repeat(x, n) == IF n <= 0 THEN <<>> ELSE <<x>> \o Repeat(x, n - 1)

\* oscillator.step(dt), called directly
Step(o, dt) ==
  /\ Ops < MaxOps
  /\ \E s \in {step(osc[o], heap, dt)} :
       LET oscs == [osc EXCEPT ![o] = s.self]
       IN
         /\ osc' = oscs
         /\ heap' = Collect(oscs, ern, s.heap)
         /\ ret' = [op |-> "step", osc |-> o, dt |-> dt, error |-> "none"]
         /\ calls' = [calls EXCEPT ![o] = Append(@, <<dt>>)]
  /\ UNCHANGED <<ern, seed, snapshot, loop, api>>

\* oscillator.simulate(duration, dt, record_interval)
Simulate(o, a) ==
  /\ Ops < MaxOps
  /\ \E s \in {simulate(osc[o], heap, a[1], a[2], a[3])} :
       LET oscs == [osc EXCEPT ![o] = s.self]
       IN
         /\ osc' = oscs
         /\ heap' = Collect(oscs, ern, s.heap)
         /\ ret' = [op |-> "simulate", osc |-> o, duration |-> a[1], dt |-> a[2],
                    record_interval |-> a[3], error |-> s.error,
                    start |-> heap[osc[o].phases],
                    before |-> Len(osc[o].phase_history)]
         /\ calls' = [calls EXCEPT ![o] =
                        Append(@, Repeat(a[2], IF a[2] \in {0, NaN} THEN 0
                                               ELSE IF s.error = "none"
                                               THEN n_steps_of(a[1], a[2])
                                               ELSE 1))]
  /\ UNCHANGED <<ern, seed, snapshot, loop, api>>

\* self.update(dt), as called by anyone
RunUpdate(dt) ==
  /\ \E u \in {update(ern, osc["ctl"], heap, dt)} :
       LET oscs == [osc EXCEPT !["ctl"] = u.oscillator]
       IN
         /\ osc' = oscs
         /\ ern' = u.state
         /\ heap' = Collect(oscs, u.state, u.heap)
         /\ ret' = [op |-> "update", osc |-> "ctl", dt |-> dt]
         /\ calls' = [calls EXCEPT !["ctl"] = Append(@, <<dt>>)]
  /\ UNCHANGED <<seed, snapshot, api>>

\* controller.update(dt)
Update(dt) ==
  /\ Ops < MaxOps
  /\ RunUpdate(dt)
  /\ UNCHANGED loop

\* controller.receive_feedback(feedback)
ReceiveFeedback(feedback) ==
  /\ Ops < MaxOps
  /\ \E f \in {process_feedback(feedback, ern, osc["ctl"])} :
         /\ ern' = f.state
         /\ osc' = [osc EXCEPT !["ctl"] = f.oscillator]
         /\ ret' = [op |-> "receive_feedback", osc |-> "ctl"]
  /\ UNCHANGED <<heap, calls, seed, snapshot, loop, api>>

\* oscillator.kuramoto_derivatives(phases)
KuramotoDerivatives(o, p) ==
  /\ ret' = [op |-> "kuramoto_derivatives", osc |-> o, phases |-> p,
             value |-> kuramoto_derivatives(osc[o], p)]
  /\ UNCHANGED <<osc, heap, ern, calls, seed, snapshot, loop, api>>

\* oscillator.calculate_coherence()
CalculateCoherence(o) ==
  /\ ret' = [op |-> "calculate_coherence", osc |-> o,
             value |-> calculate_coherence(osc[o], heap)]
  /\ UNCHANGED <<osc, heap, ern, calls, seed, snapshot, loop, api>>

\* oscillator.calculate_field_coherence()
CalculateFieldCoherence(o) ==
  /\ ret' = [op |-> "calculate_field_coherence", osc |-> o,
             value |-> calculate_field_coherence(osc[o], heap)]
  /\ UNCHANGED <<osc, heap, ern, calls, seed, snapshot, loop, api>>

\* oscillator.get_dominant_field()
GetDominantField(o) ==
  /\ ret' = [op |-> "get_dominant_field", osc |-> o,
             value |-> get_dominant_field(osc[o], heap)]
  /\ UNCHANGED <<osc, heap, ern, calls, seed, snapshot, loop, api>>

\* oscillator.get_state_vector()
GetStateVector(o) ==
  /\ ret' = [op |-> "get_state_vector", osc |-> o,
             value |-> get_state_vector(osc[o], heap)]
  /\ UNCHANGED <<osc, heap, ern, calls, seed, snapshot, loop, api>>

\* state = oscillator.get_state_vector(), the caller keeping the dict
KeepStateVector(o) ==
  /\ \E state \in {get_state_vector(osc[o], heap)} :
       /\ ret' = [op |-> "get_state_vector", osc |-> o, value |-> state]
       /\ snapshot' = [taken |-> TRUE, osc |-> o, state |-> state]
  /\ UNCHANGED <<osc, heap, ern, calls, seed, loop, api>>

\* the birth_data dicts
BirthData == {"birth_data"}

\* controller.initialize(birth_data)
Initialize(birth_data) ==
  /\ \E i \in {initialize(ern, osc["ctl"], heap, birth_data)} :
       /\ ern' = i.state
       /\ osc' = [osc EXCEPT !["ctl"] = i.oscillator]
       /\ heap' = i.heap
  /\ ret' = [op |-> "initialize", osc |-> "ctl"]
  /\ UNCHANGED <<calls, seed, snapshot, loop, api>>

\* CHANNELS lists with an edge to node 9, an edge from node -1, and neither
ChannelLists ==
  { << <<0, 1, 800>>, <<2, 9, 500>> >>,
    << <<0, 1, 800>>, <<-1, 2, 500>> >>,
    << <<0, 1, 800>>, <<1, 2, 800>> >>,
    CHANNELS }

\* ConsciousnessOscillator(coupling_strength) after CHANNELS was replaced
Construct(channels, coupling_strength) ==
  /\ ret' = [op |-> "construct", channels |-> channels,
             value |-> construct_with(channels, coupling_strength)]
  /\ UNCHANGED <<osc, heap, ern, calls, seed, snapshot, loop, api>>

\* the calls that change the oscillators or the controller
Calls ==
  \/ \E dt \in StepDts : Step("main", dt)
  \/ \E a \in SimArgs : Simulate("main", a)
  \/ \E dt \in UpdateDts : Update(dt)
  \/ \E f \in Feedbacks : ReceiveFeedback(f)

\* the calls that only read
Queries ==
  \/ \E p \in ProbePhases : KuramotoDerivatives("main", p)
  \/ CalculateCoherence("main")
  \/ CalculateFieldCoherence("main")
  \/ GetDominantField("main")
  \/ GetStateVector("main")

Next == Calls

Spec == Init /\ [][Next]_vars

NextObserved ==
  \/ (Ops < MaxObservedOps /\ Calls)
  \/ Queries

\* the same system with the reading calls interleaved
SpecObserved == Init /\ [][NextObserved]_vars

\* simulate(duration=1.0, dt=0.01, record_interval=10)
ScenarioArgs == { <<1000, 10, 10>> }

(***************************************************************************)
(* api.py.  The global ern_organism is None or a dict of four objects that  *)
(* each own an oscillator: "oscillator", "controller" (ERNController),      *)
(* "oracle" (ERNOracle.ern) and "talking_ern" (TalkingERN.ern); "fairy"     *)
(* only keeps a reference to "oscillator".  Each object is kept with the    *)
(* arrays it refers to (heap), no array being shared between two objects.   *)
(* The endpoints are coroutines ("async def") on one event loop.            *)
(***************************************************************************)
\* the arrays an oscillator, and the controller state over it, refer to
ObjectRefs(self, field_phases) ==
  {self.phases}
  \cup {self.phase_history[k] : k \in 1 .. Len(self.phase_history)}
  \cup (IF field_phases = NoRef THEN {} ELSE {field_phases})

\* the arrays of h an object still refers to
Compact(self, field_phases, h) ==
  Array([r \in ObjectRefs(self, field_phases) |-> h[r]])

\* ERNController(): an ERNState with an oscillator of its own
new_controller(random_phases) ==
  LET o == new_oscillator(EmptyDict, 1000, 300, random_phases)
  IN  [state |-> new_ern_state, oscillator |-> o.self, heap |-> o.heap]

\* datetime(year, month, day, hour, minute) raises ValueError
InvalidDate(birth_data) == birth_data = "month 13"

\* the dict initialize_ern stores, p the phases the four oscillators draw
build_organism(birth_data, p) ==
  LET started(c) == initialize(c.state, c.oscillator, c.heap, birth_data)
  IN  [initialized |-> TRUE,
       birth_data |-> birth_data,
       oscillator |-> new_oscillator(EmptyDict, 1000, 300, p[1]),
       controller |-> started(new_controller(p[2])),
       oracle |-> started(new_controller(p[3])),
       talking_ern |-> started(new_controller(p[4]))]

\* initialize_ern losing the organism it had when the building fails
initialize_ern_resetting(organism, birth_data, p) ==
  IF InvalidDate(birth_data)
  THEN [organism |-> [initialized |-> FALSE], status |-> 500]
  ELSE [organism |-> build_organism(birth_data, p), status |-> 200]

\* initialize_ern: the global is assigned last, after everything was built
initialize_ern(organism, birth_data, p) ==
  IF InvalidDate(birth_data)
  THEN [organism |-> organism, status |-> 500]
  ELSE [organism |-> build_organism(birth_data, p), status |-> 200]

\* one self.ern.update(dt=0.01) of ERNOracle.ask, stepping the controller's
\* oscillator in the place of the oracle's
ask_update_shared(organism) ==
  LET c == organism.controller
      u == update(c.state, c.oscillator, c.heap, 10)
  IN  [organism EXCEPT
         !.controller = [state |-> u.state, oscillator |-> u.oscillator,
                         heap |-> Compact(u.oscillator, u.state.field_phases, u.heap)]]

\* one self.ern.update(dt=0.01) of ERNOracle.ask
ask_update(organism) ==
  LET c == organism.oracle
      u == update(c.state, c.oscillator, c.heap, 10)
  IN  [organism EXCEPT
         !.oracle = [state |-> u.state, oscillator |-> u.oscillator,
                     heap |-> Compact(u.oscillator, u.state.field_phases, u.heap)]]

\* one iteration of oscillator.simulate(duration=duration, dt=dt) of
\* evolve_system (record_interval is simulate's default, 10): the organism
\* and the exception raised
evolve_iteration(organism, step_i, dt) ==
  LET o == organism.oscillator
      s == simulate_iteration([self |-> o.self, heap |-> o.heap, error |-> "none"],
                              step_i, dt, 10)
  IN  [organism |-> [organism EXCEPT
                       !.oscillator = [self |-> s.self,
                                       heap |-> Compact(s.self, NoRef, s.heap)]],
       error |-> s.error]

\* the event loop runs a coroutine up to its next await, and no endpoint
\* awaits: with threads in the place of the loop any handler runs at any time
loop_is_free_threaded(slots, k) == TRUE

\* the event loop runs a coroutine up to its next await, and no endpoint
\* awaits: the handler of slot k runs when no other handler is under way
loop_is_free(slots, k) ==
  \A j \in DOMAIN slots : j # k => slots[j].op = "idle"

\* the requests of the model
BirthInputs == {"birth", "month 13"}
ApiSeedPhases == {MixedPhases, GroupPhases(0, 0, 0)}
EvolveArgs == { <<1000, 10>>, <<300, 100>>, <<200, 0>> }
Requests ==
  { [op |-> "initialize", birth_data |-> b, phases |-> <<p, MixedPhases, MixedPhases, MixedPhases>>] :
      b \in BirthInputs, p \in ApiSeedPhases }
  \cup { [op |-> "state"], [op |-> "ask"] }
  \cup { [op |-> "evolve", duration |-> a[1], dt |-> a[2]] : a \in EvolveArgs }

\* a request is taken up: its handler is entered in the first idle slot
Start(req) ==
  /\ api.served < MaxRequests
  /\ \E k \in DOMAIN api.slots :
       /\ api.slots[k].op = "idle"
       /\ \A j \in DOMAIN api.slots : j < k => api.slots[j].op # "idle"
       /\ loop_is_free(api.slots, k)
       /\ api' = [api EXCEPT !.slots[k] = [op |-> req.op, pc |-> "check", req |-> req, i |-> 0,
                                            n |-> 0],
                             !.served = @ + 1]
  /\ UNCHANGED <<osc, heap, ern, ret, calls, seed, snapshot, loop>>

\* the handler of slot k returns the response r
Respond(a, k, r) ==
  [a EXCEPT !.slots[k] = [op |-> "idle"],
            !.response = r @@ [op |-> a.slots[k].op, slot |-> k,
                               was_initialized |-> a.organism.initialized]]

\* the check of ern_organism made inside the try block, whose handler turns
\* the HTTPException into a 500
not_initialized_caught(a, k) == Respond(a, k, [status |-> 500])

\* raise HTTPException(status_code=400, detail="ERN not initialized")
not_initialized(a, k) == Respond(a, k, [status |-> 400])

\* initialize_ern, the whole handler
HandleInitialize(k) ==
  /\ api.slots[k].op = "initialize"
  /\ loop_is_free(api.slots, k)
  /\ \E r \in {initialize_ern(api.organism, api.slots[k].req.birth_data,
                              api.slots[k].req.phases)} :
       api' = [Respond(api, k, [status |-> r.status]) EXCEPT !.organism = r.organism]
  /\ UNCHANGED <<osc, heap, ern, ret, calls, seed, snapshot, loop>>

\* get_state, the whole handler
HandleState(k) ==
  /\ api.slots[k].op = "state"
  /\ loop_is_free(api.slots, k)
  /\ api' = IF ~api.organism.initialized
            THEN not_initialized(api, k)
            ELSE LET state == get_state_vector(api.organism.oscillator.self,
                                               api.organism.oscillator.heap)
                 IN  Respond(api, k, [status |-> 200,
                                      dominant_field |-> state.dominant_field,
                                      coherence |-> state.coherence.global,
                                      field_strengths |-> state.field_strengths])
  /\ UNCHANGED <<osc, heap, ern, ret, calls, seed, snapshot, loop>>

\* evolve_system: the check of ern_organism, then simulate iteration by
\* iteration, then the response
HandleEvolve(k) ==
  /\ api.slots[k].op = "evolve"
  /\ loop_is_free(api.slots, k)
  /\ LET slot == api.slots[k]
         dt == slot.req.dt
     IN  api' =
           IF slot.pc = "check"
           THEN IF ~api.organism.initialized
                THEN not_initialized(api, k)
                ELSE IF dt = 0
                THEN Respond(api, k, [status |-> 500])
                ELSE [api EXCEPT !.slots[k].pc = "simulate",
                                 !.slots[k].n = n_steps_of(slot.req.duration, dt)]
           ELSE IF slot.i < slot.n
           THEN Then(evolve_iteration(api.organism, slot.i, dt), LAMBDA e :
                  IF e.error # "none"
                  THEN [Respond(api, k, [status |-> 500]) EXCEPT !.organism = e.organism]
                  ELSE [api EXCEPT !.organism = e.organism, !.slots[k].i = @ + 1])
           ELSE Respond(api, k,
                        [status |-> 200,
                         states_recorded |-> Len(api.organism.oscillator.self.phase_history)])
  /\ UNCHANGED <<osc, heap, ern, ret, calls, seed, snapshot, loop>>

\* the updates ERNOracle.ask makes before it answers
AskUpdates == 50

\* ask_oracle: the check of ern_organism, then the updates of oracle.ask one
\* by one, then the response (the answer and its scores left out)
HandleAsk(k) ==
  /\ api.slots[k].op = "ask"
  /\ loop_is_free(api.slots, k)
  /\ LET slot == api.slots[k]
     IN  api' =
           IF slot.pc = "check"
           THEN IF ~api.organism.initialized
                THEN not_initialized(api, k)
                ELSE [api EXCEPT !.slots[k].pc = "ask"]
           ELSE IF slot.i < AskUpdates
           THEN Then(ask_update(api.organism), LAMBDA g :
                  [api EXCEPT !.organism = g, !.slots[k].i = @ + 1])
           ELSE Respond(api, k,
                        [status |-> 200,
                         field |-> api.organism.oracle.state.dominant_field,
                         coherence |-> api.organism.oracle.state.coherence])
  /\ UNCHANGED <<osc, heap, ern, ret, calls, seed, snapshot, loop>>

\* the process before any request: ern_organism = None
InitApi == Constructed(MixedPhases, 300, MixedPhases)

NextApi ==
  \/ \E req \in Requests : Start(req)
  \/ \E k \in DOMAIN api.slots : HandleInitialize(k)
  \/ \E k \in DOMAIN api.slots : HandleState(k)
  \/ \E k \in DOMAIN api.slots : HandleEvolve(k)
  \/ \E k \in DOMAIN api.slots : HandleAsk(k)

\* the web layer: requests to /ern/initialize, /ern/state, /ern/evolve and
\* /ern/oracle/ask in any order
SpecApi == InitApi /\ [][NextApi]_vars

\* step(dt=0.01)
ScenarioDts == {10}

InitScenario ==
  \E p1 \in UncoupledSeedPhases, cs \in SeedCoupling, p2 \in CtlSeedPhases :
    Constructed(p1, cs, p2)

NextScenario ==
  /\ Ops < MaxScenarioOps
  /\ \/ \E a \in SimArgs \cup ScenarioArgs : Simulate("main", a)
     \/ \E dt \in StepDts \cup ScenarioDts : Step("main", dt)

\* runs of simulate and step on one oscillator, the 100-step run among them
SpecScenario == InitScenario /\ [][NextScenario]_vars

\* base_frequency arguments other than 1.0
BaseFrequencies == {2000}

InitKept ==
  \/ InitScenario
  \/ \E bf \in BaseFrequencies, p2 \in CtlSeedPhases :
       ConstructedWith(bf, MixedPhases, 300, p2)

NextKept ==
  \/ (Ops < MaxKeptOps /\ Calls)
  \/ \E o \in OscIds : KeepStateVector(o)
  \/ \E b \in BirthData : Initialize(b)

\* the system of a caller that keeps the state dicts it gets, the controller
\* being initialized at any time
SpecKept == InitKept /\ [][NextKept]_vars

\* the (duration, dt) arguments of run_loop
LoopArgs == { <<300, 100>>, <<200, 100>>, <<50, 100>> }

\* controller.run_loop(duration, dt) is called: its thread is in the
\* function, before its first statement
RunLoop(a) ==
  /\ loop.pc \in {"idle", "done"}
  /\ loop.runs < MaxRuns
  /\ loop' = [loop EXCEPT !.pc = "entered", !.duration = a[1], !.dt = a[2],
                          !.runs = @ + 1, !.stopped_at = "never"]
  /\ ret' = [op |-> "run_loop", osc |-> "ctl"]
  /\ UNCHANGED <<osc, heap, ern, calls, seed, snapshot, api>>

\* self.running = True; steps = int(duration / dt)
SetRunning ==
  /\ loop.pc = "entered"
  /\ loop' = [loop EXCEPT !.pc = "top", !.running = TRUE, !.step = 0,
                          !.steps = n_steps_of(loop.duration, loop.dt)]
  /\ UNCHANGED <<osc, heap, ern, ret, calls, seed, snapshot, api>>

\* for step in range(steps): if not self.running: break; the update of the
\* iteration is begun when the flag was read as set
NextIteration ==
  /\ loop.pc = "top"
  /\ loop' = [loop EXCEPT !.pc = IF loop.step < loop.steps /\ loop.running
                                 THEN "updating" ELSE "done"]
  /\ UNCHANGED <<osc, heap, ern, ret, calls, seed, snapshot, api>>

\* self.update(dt) of the iteration, the whole of it
LoopUpdate ==
  /\ loop.pc = "updating"
  /\ RunUpdate(loop.dt)
  /\ loop' = [loop EXCEPT !.pc = "top", !.step = @ + 1]

\* controller.stop(), from another thread, at any time; stopped_at keeps
\* where run_loop was at the first stop() of this run
Stop ==
  /\ loop' = [loop EXCEPT !.running = FALSE,
                          !.stopped_at = IF @ = "never" /\ loop.pc \in {"entered", "top", "updating"}
                                         THEN loop.pc ELSE @]
  /\ ret' = [op |-> "stop", osc |-> "ctl"]
  /\ UNCHANGED <<osc, heap, ern, calls, seed, snapshot, api>>

\* the steps of the thread in run_loop
LoopThread == SetRunning \/ NextIteration \/ LoopUpdate

NextLoop ==
  \/ \E a \in LoopArgs : RunLoop(a)
  \/ LoopThread
  \/ Stop

\* run_loop in one thread, which keeps running, and stop() from another
SpecLoop == Init /\ [][NextLoop]_vars /\ WF_vars(LoopThread)

\* the phases the controller's oscillator draws: the mixed ones, and ones
\* with the Head at its crest while Ajna and Throat are at their trough
SpikedPhases ==
  [i \in Idx |-> <<1400, 4600, 4600, 0, 0, 0, 3142, 3142, 3142>>[i + 1]]

SharedSeedPhases == {MixedPhases, SpikedPhases}

InitShared ==
  \E p1 \in UncoupledSeedPhases, cs \in SeedCoupling, p2 \in SharedSeedPhases :
    Constructed(p1, cs, p2)

NextShared ==
  /\ Ops < MaxSharedOps
  /\ \/ \E dt \in UpdateDts : Update(dt)
     \/ \E dt \in StepDts : Step("ctl", dt)
     \/ \E a \in SimArgs : Simulate("ctl", a)

\* the controller's oscillator stepped by controller.update and, in between,
\* by controller.state.oscillator.step and simulate
SpecShared == InitShared /\ [][NextShared]_vars

\* the arguments that are not finite: dt = float("nan")
NonFiniteDts == {NaN}
NonFiniteSimArgs == { <<500, NaN, 1>> }

\* simulate with a negative dt, a negative record_interval, a negative
\* duration
InvalidSimArgs == { <<500, -100, 1>>, <<300, 100, -2>>, <<-200, 100, 1>> }

\* a negative coupling_strength argument
InvalidCoupling == {-300}

InitNonFinite ==
  \E p1 \in UncoupledSeedPhases, cs \in SeedCoupling \cup InvalidCoupling,
     p2 \in CtlSeedPhases :
    Constructed(p1, cs, p2)

NextNonFinite ==
  \/ /\ Ops < MaxNonFiniteOps
     /\ \/ \E dt \in StepDts \cup NonFiniteDts : Step("main", dt)
        \/ \E a \in SimArgs \cup NonFiniteSimArgs \cup InvalidSimArgs :
             Simulate("main", a)
  \/ Queries
  \/ \E c \in ChannelLists : Construct(c, 300)

\* the calls on one oscillator, those with arguments that are not finite or
\* not positive among them
SpecNonFinite == InitNonFinite /\ [][NextNonFinite]_vars

(***************************************************************************)
(* The properties.                                                         *)
(***************************************************************************)
\* the weight of the channel between centers i and j, 0 without a channel
ChannelWeight(i, j) ==
  LET ks == {k \in 1 .. Len(CHANNELS) : {CHANNELS[k][1], CHANNELS[k][2]} = {i, j}}
  IN  IF ks = {} THEN 0 ELSE CHANNELS[CHOOSE k \in ks : TRUE][3]

\* the calls that run the dynamics
Stepping == {"step", "simulate", "update"}

\* C1: whenever the dynamics of an oscillator have just run, every entry
\* K[i][j] of the matrix they used is weight(i, j) times the oscillator's
\* current coupling_strength, also after process_feedback rescaled it.
C1_MatrixFollowsStrength ==
  (ret.op \in Stepping) =>
    \A i \in Idx, j \in Idx :
      osc[ret.osc].coupling_matrix[i][j]
        = Mul(ChannelWeight(i, j), osc[ret.osc].coupling_strength)

\* C2: after construction and after every step, simulate and update, with
\* any dt, every phase of every oscillator is in [0, 2 pi).
C2_PhasesWrapped ==
  \A o \in OscIds, i \in Idx :
    /\ heap[osc[o].phases][i] >= 0
    /\ heap[osc[o].phases][i] < TwoPi

RECURSIVE Flatten(_)
\* the dt of every step() an oscillator ran, in order
Flatten(log) == IF log = <<>> THEN <<>> ELSE Head(log) \o Flatten(Tail(log))

\* C3: two oscillators that started from the same phases, have the same
\* natural frequencies and coupling matrix and ran the same steps have the
\* same phases, whatever else differs between them.
C3_Deterministic ==
  \A a \in OscIds, b \in OscIds :
    ( /\ seed[a].phases = seed[b].phases
      /\ osc[a].natural_frequencies = osc[b].natural_frequencies
      /\ osc[a].coupling_matrix = osc[b].coupling_matrix
      /\ Flatten(calls[a]) = Flatten(calls[b]) )
    => heap[osc[a].phases] = heap[osc[b].phases]

\* the two oscillators ran the same steps by different calls and differ in
\* coupling_strength and in their histories
C3_Witness ==
  /\ seed["main"].phases = seed["ctl"].phases
  /\ osc["main"].coupling_matrix = osc["ctl"].coupling_matrix
  /\ Flatten(calls["main"]) = Flatten(calls["ctl"])
  /\ Flatten(calls["main"]) # <<>>
  /\ osc["main"].coupling_strength # osc["ctl"].coupling_strength
  /\ heap[osc["main"].phases] # seed["main"].phases

\* C4: on an oscillator built with coupling_strength 0, kuramoto_derivatives
\* returns the natural frequencies, whatever the phases.
C4_UncoupledDerivatives ==
  (ret.op = "kuramoto_derivatives" /\ osc[ret.osc].coupling_strength = 0)
    => ret.value = osc[ret.osc].natural_frequencies

\* the derivatives were asked of an uncoupled oscillator at unequal phases
C4_Witness ==
  /\ ret.op = "kuramoto_derivatives"
  /\ osc[ret.osc].coupling_strength = 0
  /\ ret.phases = MixedPhases
  /\ calls[ret.osc] # <<>>

\* C5: in every state the coupling matrix of every oscillator is symmetric
\* and has a zero diagonal.
C5_SymmetricZeroDiagonal ==
  \A o \in OscIds, i \in Idx, j \in Idx :
    /\ osc[o].coupling_matrix[i][j] = osc[o].coupling_matrix[j][i]
    /\ osc[o].coupling_matrix[i][i] = 0

\* a matrix with couplings, after steps and a feedback
C5_Witness ==
  /\ osc["main"].coupling_matrix[0][1] > 0
  /\ osc["ctl"].coupling_matrix[7][8] > 0
  /\ calls["main"] # <<>>
  /\ ern.feedback_history # <<>>

\* the phases one step(dt) leaves, from the phases p
StepOnce(self, p, dt) ==
  LET s == step([self EXCEPT !.phases = 1], Alloc(EmptyDict, 1, p), dt)
  IN  s.heap[s.self.phases]

RECURSIVE StepsFrom(_, _, _, _)
\* the phases m calls of step(dt) leave, from the phases p
StepsFrom(self, p, m, dt) ==
  IF m <= 0 THEN p
  ELSE IF m = 1 THEN StepOnce(self, p, dt)
  ELSE Then(StepsFrom(self, p, m \div 2, dt),
            LAMBDA q : StepsFrom(self, q, m - (m \div 2), dt))

\* the last call was a simulate that returned, with record_interval >= 1
Simulated ==
  /\ ret.op = "simulate"
  /\ ret.error = "none"
  /\ ret.record_interval >= 1

\* the entries the last simulate appended
Appended == Len(osc[ret.osc].phase_history) - ret.before

C7_TimeIsElapsed ==
  Simulated =>
    \A k \in (ret.before + 1) .. Len(osc[ret.osc].phase_history) :
      LET self == osc[ret.osc]
          copy == heap[self.phase_history[k]]
      IN  /\ copy = StepsFrom(self, ret.start, self.time_history[k] \div ret.dt, ret.dt)
          /\ self.coherence_history[k] = order_parameter(copy, Idx)

\* entry k of the three histories of oscillator o, the phase copy by value
HistoryEntry(oscs, h, o, k) ==
  [phases |-> h[oscs[o].phase_history[k]],
   coherence |-> oscs[o].coherence_history[k],
   time |-> oscs[o].time_history[k]]

\* C8: no call shortens a history or alters an entry, the stored phase
\* copies included, and only simulate on that oscillator lengthens one.
C8_HistoryFrame ==
  [][\A o \in OscIds :
       /\ Len(osc'[o].phase_history) >= Len(osc[o].phase_history)
       /\ Len(osc'[o].coherence_history) >= Len(osc[o].coherence_history)
       /\ Len(osc'[o].time_history) >= Len(osc[o].time_history)
       /\ \A k \in 1 .. Len(osc[o].phase_history) :
            HistoryEntry(osc', heap', o, k) = HistoryEntry(osc, heap, o, k)
       /\ ( \/ Len(osc'[o].phase_history) # Len(osc[o].phase_history)
            \/ Len(osc'[o].coherence_history) # Len(osc[o].coherence_history)
            \/ Len(osc'[o].time_history) # Len(osc[o].time_history) )
          => (ret'.op = "simulate" /\ ret'.osc = o)]_vars

\* a step after a simulate that recorded: the phases have moved on from the
\* last stored copy
C8_Witness ==
  /\ ret.op = "step"
  /\ osc[ret.osc].phase_history # <<>>
  /\ \A k \in 1 .. Len(osc[ret.osc].phase_history) :
       heap[osc[ret.osc].phase_history[k]] # heap[osc[ret.osc].phases]

\* the centers of a field
FieldIdx(f) == {i \in Idx : CENTERS[i].field = f}

\* the mean activation of each field of oscillator o
FieldMeans(o) ==
  LET a == get_field_activation(osc[o], heap)
  IN  [f \in Fields |-> mean_of(a, FieldIdx(f))]

StrictlyHighest(f, m) == \A g \in Fields \ {f} : m[f] > m[g]

\* C9: when the mean activation of one field is strictly above the two
\* others, get_dominant_field returns that field and the snapshot of
\* get_state_vector names it as dominant_field.
C9_StrictlyHighestWins ==
  \A f \in Fields :
    (ret.op \in {"get_dominant_field", "get_state_vector"}
       /\ StrictlyHighest(f, FieldMeans(ret.osc)))
    => /\ ret.op = "get_dominant_field" => ret.value.dominant = f
       /\ ret.op = "get_state_vector" => ret.value.dominant_field = f

\* a snapshot taken while Heart, the last field of the dict, is strictly
\* highest
C9_Witness ==
  /\ ret.op = "get_state_vector"
  /\ StrictlyHighest("Heart", FieldMeans(ret.osc))
  /\ ret.value.dominant_field = "Heart"

\* the priority of the fields in a tie
Priority == <<"Body", "Mind", "Heart">>

\* the fields of highest mean activation
TopFields(m) == {f \in Fields : \A g \in Fields : m[f] >= m[g]}

\* the first field of highest mean activation in the priority order
PriorityPick(m) ==
  Priority[CHOOSE k \in 1 .. Len(Priority) :
             /\ Priority[k] \in TopFields(m)
             /\ \A l \in 1 .. (k - 1) : Priority[l] \notin TopFields(m)]

\* C10: when several fields tie for the highest mean activation,
\* get_dominant_field returns the first of Body, Mind, Heart among them, in
\* every state, whatever calls came before.
C10_TieBreak ==
  (ret.op = "get_dominant_field"
     /\ Cardinality(TopFields(FieldMeans(ret.osc))) >= 2)
  => ret.value.dominant = PriorityPick(FieldMeans(ret.osc))

\* Mind and Heart tie above Body, and Mind is returned
C10_Witness ==
  /\ ret.op = "get_dominant_field"
  /\ TopFields(FieldMeans(ret.osc)) = {"Mind", "Heart"}
  /\ ret.value.dominant = "Mind"

\* the distance of two phases on the circle
CircularDistance(a, b) ==
  LET d == (a - b) % TwoPi IN IF d > Pi THEN TwoPi - d ELSE d

\* all phases of p are equal modulo 2 pi
AllEqualPhases(p) == \A i \in Idx, j \in Idx : CircularDistance(p[i], p[j]) = 0

\* no two phases of p are further apart than d
WithinSpread(p, d) == \A i \in Idx, j \in Idx : CircularDistance(p[i], p[j]) <= d

\* the coherences the program computed or computes in this state, each with
\* the phase vector it is the coherence of: the records of simulate and
\* calculate_coherence() on the present phases
CoherenceSamples ==
  UNION { { <<osc[o].coherence_history[k], heap[osc[o].phase_history[k]]>> :
              k \in 1 .. Len(osc[o].phase_history) }
          \cup { <<calculate_coherence(osc[o], heap), heap[osc[o].phases]>> } :
          o \in OscIds }

AlignmentKeys == {"body_mind", "body_heart", "mind_heart"}

\* C12: each of the three alignment scores returned by
\* calculate_field_coherence, and exported in the snapshot of
\* get_state_vector, is in [0, 1].
C12_AlignmentInUnitInterval ==
  /\ ret.op = "calculate_field_coherence" =>
       \A k \in AlignmentKeys : ret.value[k] >= 0 /\ ret.value[k] <= Scale
  /\ ret.op = "get_state_vector" =>
       \A k \in AlignmentKeys :
         ret.value.coherence[k] >= 0 /\ ret.value.coherence[k] <= Scale

\* C13: step with dt <= 0, simulate with dt <= 0, duration <= 0 or
\* record_interval <= 0, and construction with coupling_strength < 0 each
\* end in the error InvalidArgument (so no oscillator with a negative
\* coupling_strength exists).
C13_InvalidArgumentsRejected ==
  /\ (ret.op = "step" /\ ret.dt # NaN /\ ret.dt <= 0)
       => ret.error = "InvalidArgument"
  /\ (ret.op = "simulate"
        /\ \/ (ret.dt # NaN /\ ret.dt <= 0)
           \/ ret.duration <= 0
           \/ ret.record_interval <= 0)
       => ret.error = "InvalidArgument"
  /\ \A o \in OscIds : osc[o].coupling_strength >= 0

\* C14: when the last call of simulate or step ended in an error, the phase
\* vector and the three histories are as they were before the call.
C14_NoPartialFailure ==
  (ret.op = "simulate" /\ ret.error # "none") =>
    /\ heap[osc[ret.osc].phases] = ret.start
    /\ Len(osc[ret.osc].phase_history) = ret.before
    /\ Len(osc[ret.osc].coherence_history) = ret.before
    /\ Len(osc[ret.osc].time_history) = ret.before

\* the channel list has an edge with a node index outside 0 .. N - 1
HasInvalidEdge(channels) ==
  \E k \in 1 .. Len(channels) :
    channels[k][1] \notin Idx \/ channels[k][2] \notin Idx

\* C15: a construction over a channel list with an edge whose node index
\* is outside [0, N) ends in ConfigurationError and yields no oscillator.
C15_InvalidEdgeRejected ==
  (ret.op = "construct" /\ HasInvalidEdge(ret.channels)) =>
    /\ ret.value.error = "ConfigurationError"
    /\ ~ret.value.constructed

\* what the state dict the caller keeps reads as
SnapshotContents ==
  [snapshot.state EXCEPT
     !.centers = [i \in Idx |-> [@[i] EXCEPT !.phase = Read(@, heap)]]]

\* C16: no call changes what a state dict returned by get_state_vector
\* reads as (step, simulate, update and a change of coupling_strength by
\* feedback included), and get_state_vector changes neither the phases, the
\* coupling matrix, coupling_strength nor the histories of any oscillator.
C16_SnapshotPointInTime ==
  [][/\ (snapshot.taken /\ snapshot' = snapshot)
          => SnapshotContents' = SnapshotContents
     /\ ret'.op = "get_state_vector"
          => /\ osc' = osc
             /\ \A o \in OscIds :
                  /\ heap'[osc[o].phases] = heap[osc[o].phases]
                  /\ \A k \in 1 .. Len(osc[o].phase_history) :
                       heap'[osc[o].phase_history[k]]
                         = heap[osc[o].phase_history[k]]]_vars

\* a state dict is kept, and the oscillator it was taken from was stepped
\* since to phases that differ from the exported ones
C16_Witness ==
  /\ snapshot.taken
  /\ ret.op \in {"step", "simulate", "update", "receive_feedback"}
  /\ ret.osc = snapshot.osc
  /\ \E i \in Idx :
       Read(snapshot.state.centers[i].phase, heap)
         # heap[osc[snapshot.osc].phases][i]

RECURSIVE Total(_)
\* the sum of the numbers of a sequence
Total(q) == IF q = <<>> THEN 0 ELSE Head(q) + Total(Tail(q))

\* the dt of every step() made on oscillator o since construction, summed
\* call by call
ElapsedByCall(o) == [k \in 1 .. Len(calls[o]) |-> Total(calls[o][k])]

\* the number of step() made on oscillator o since construction
StepsMade(o) == Total([k \in 1 .. Len(calls[o]) |-> Len(calls[o][k])])

\* Scale times (theta_i + natural_frequency_i * the dt of all steps), theta
\* the phases o was constructed with
FreeRunning(o, i) ==
  Scale * seed[o].phases[i]
    + osc[o].natural_frequencies[i] * Total(ElapsedByCall(o))

\* oscillator o has no coupling and was stepped
Uncoupled(o) ==
  /\ osc[o].coupling_matrix = ZeroMatrix
  /\ StepsMade(o) > 0

\* C18: without coupling, after any steps the phase of node i is
\* (theta_i + natural_frequency_i * the dt of the steps) mod 2 pi up to the
\* rounding of the arithmetic, one unit of the last place per step.
C18_FreeRunningUpToRounding ==
  \A i \in Idx :
    Uncoupled("main") =>
      CircularDistance(heap[osc["main"].phases][i],
                       FreeRunning("main", i) \div Scale) <= StepsMade("main")

\* one step(dt=0.01) from phases 0 without coupling: every phase is
\* frequency_i * 0.01 with the last place rounded
C18_Witness ==
  /\ osc["main"].coupling_matrix = ZeroMatrix
  /\ \A i \in Idx : seed["main"].phases[i] = 0
  /\ calls["main"] = << <<10>> >>
  /\ \A i \in Idx :
       /\ heap[osc["main"].phases][i] = (CENTERS[i].frequency * 10) \div Scale
       /\ \E j \in Idx : Scale * heap[osc["main"].phases][j] # CENTERS[j].frequency * 10

\* C18 as stated: the phase is exactly (theta_i + natural_frequency_i *
\* the dt of the steps) mod 2 pi
C18_FreeRunningExact ==
  \A i \in Idx :
    Uncoupled("main") =>
      (Scale * heap[osc["main"].phases][i] - FreeRunning("main", i))
        % (Scale * TwoPi) = 0

\* theta + (dt / d) * k
Along(theta, k, dt, d) ==
  Array([i \in Idx |-> theta[i] + ((dt * k[i]) \div (d * Scale))])

\* (theta + dt/6 (k1 + 2 k2 + 2 k3 + k4)) mod 2 pi, where k1 = f(theta),
\* k2 = f(theta + dt/2 k1), k3 = f(theta + dt/2 k2), k4 = f(theta + dt k3)
\* and f is kuramoto_derivatives of the oscillator self
RungeKutta4(self, theta, dt) ==
  Then(kuramoto_derivatives(self, theta), LAMBDA k1 :
  Then(kuramoto_derivatives(self, Along(theta, k1, dt, 2)), LAMBDA k2 :
  Then(kuramoto_derivatives(self, Along(theta, k2, dt, 2)), LAMBDA k3 :
  Then(kuramoto_derivatives(self, Along(theta, k3, dt, 1)), LAMBDA k4 :
    Array([i \in Idx |->
      (theta[i] + ((dt * (k1[i] + 2 * k2[i] + 2 * k3[i] + k4[i]))
                     \div (6 * Scale))) % TwoPi])))))

\* C19: a step(dt), called directly or by update, leaves the phases
\* (theta + dt/6 (k1 + 2 k2 + 2 k3 + k4)) mod 2 pi, the four stages being
\* evaluated in order from the phases theta and the coupling matrix the
\* oscillator had before the step.
C19_RungeKuttaStages ==
  [][ret'.op \in {"step", "update"} =>
       heap'[osc'[ret'.osc].phases]
         = RungeKutta4(osc[ret'.osc], heap[osc[ret'.osc].phases], ret'.dt)]_vars

\* one step(0.1) of a coupled oscillator whose second stage differs from
\* its first, leaving the phases of the four stages
C19_Witness ==
  /\ ret.op = "step"
  /\ calls["main"] = << <<100>> >>
  /\ osc["main"].coupling_matrix # ZeroMatrix
  /\ LET theta == seed["main"].phases
         k1 == kuramoto_derivatives(osc["main"], theta)
     IN  /\ kuramoto_derivatives(osc["main"], Along(theta, k1, 100, 2)) # k1
         /\ heap[osc["main"].phases] = RungeKutta4(osc["main"], theta, 100)
         /\ heap[osc["main"].phases]
              # Array([i \in Idx |-> (theta[i] + Mul(100, k1[i])) % TwoPi])

\* C20: once stop() was called while run_loop was executing, the update in
\* progress is completed, no update is begun any more, and run_loop ends.
C20_StopEndsLoop ==
  /\ [][(loop.stopped_at # "never" /\ loop'.pc = "updating")
          => loop.pc = "updating"]_vars
  /\ [][(loop.pc = "updating" /\ loop'.pc # "updating")
          => (ret'.op = "update" /\ loop'.step = loop.step + 1)]_vars
  /\ (loop.stopped_at # "never" ~> loop.pc = "done")

\* C22: the phases the controller stored at an update (state.field_phases)
\* stay as they were and within [0, 2 pi) until its next update, whatever
\* step and simulate are called on its oscillator in between.
C22_StoredPhasesKept ==
  /\ [][(ern.field_phases # NoRef /\ ret'.op # "update")
          => heap'[ern'.field_phases] = heap[ern.field_phases]]_vars
  /\ [](ern.field_phases # NoRef =>
          \A i \in Idx : /\ heap[ern.field_phases][i] >= 0
                         /\ heap[ern.field_phases][i] < TwoPi)

\* C23: over any sequence of simulate calls on one oscillator, the times of
\* time_history are non-decreasing from the first entry to the last.
C23_TimesNonDecreasing ==
  \A o \in OscIds : \A k \in 1 .. Len(osc[o].time_history) - 1 :
    osc[o].time_history[k] <= osc[o].time_history[k + 1]

\* C24: the flags update stores are those of the oscillator it stepped:
\* field_dominance exactly when the mean activation of some field exceeds
\* 0.8, unity_collapse exactly when every activation is below 0.2; no
\* exception is raised.
C24_FlagsFollowFields ==
  ret.op = "update" =>
    /\ ern.imbalance_flags.field_dominance
         <=> \E f \in Fields : FieldMeans("ctl")[f] > 800
    /\ ern.imbalance_flags.unity_collapse
         <=> \A i \in Idx : get_field_activation(osc["ctl"], heap)[i] < 200

\* C26: when update returns, state.coherence, state.dominant_field,
\* state.field_amplitudes and state.imbalance_flags are those of the phases
\* the oscillator has after the step of that update, the coherence_drop
\* flag being taken from the refreshed coherence.
C26_StateOfThisStep ==
  ret.op = "update" =>
    LET o == osc["ctl"]
        a == get_field_activation(o, heap)
    IN  /\ ern.field_amplitudes = a
        /\ ern.coherence = calculate_coherence(o, heap)
        /\ ern.dominant_field = get_dominant_field(o, heap).dominant
        /\ ern.imbalance_flags.field_dominance <=> \E i \in Idx : a[i] > 800
        /\ ern.imbalance_flags.coherence_drop
             <=> calculate_coherence(o, heap) < 300
        /\ ern.imbalance_flags.unity_collapse <=> \A i \in Idx : a[i] < 200

\* the first update of a controller (whose coherence was 0.0 before) left a
\* coherence of 0.3 or more and no coherence_drop flag
C26_Witness ==
  /\ ret.op = "update"
  /\ calls["ctl"] = << <<100>> >>
  /\ ern.coherence >= 300
  /\ ~ern.imbalance_flags.coherence_drop

\* C29: in every state the three histories of an oscillator have the same
\* length and entry k of coherence_history is the coherence of entry k of
\* phase_history; a simulate appends equally many entries to each, the
\* times of the iterations 0, record_interval, 2 record_interval, ... of
\* that call.
C29_HistoriesAligned ==
  /\ [](\A o \in OscIds :
          /\ Len(osc[o].phase_history) = Len(osc[o].coherence_history)
          /\ Len(osc[o].phase_history) = Len(osc[o].time_history)
          /\ \A k \in 1 .. Len(osc[o].phase_history) :
               osc[o].coherence_history[k]
                 = order_parameter(heap[osc[o].phase_history[k]], Idx))
  /\ [][ret'.op = "simulate" =>
          \A k \in (Len(osc[ret'.osc].time_history) + 1)
                     .. Len(osc'[ret'.osc].time_history) :
            osc'[ret'.osc].time_history[k]
              = (k - Len(osc[ret'.osc].time_history) - 1)
                  * ret'.record_interval * ret'.dt]_vars

\* a second simulate has appended to histories a first one had filled
C29_Witness ==
  /\ ret.op = "simulate"
  /\ ret.error = "none"
  /\ ret.before >= 1
  /\ Len(osc[ret.osc].time_history) > ret.before + 1

\* C30: the frequency get_state_vector exports for a center is the natural
\* frequency of that center, the one kuramoto_derivatives uses (the
\* center's multiplier times base_frequency).
C30_ExportedFrequency ==
  ret.op = "get_state_vector" =>
    \A i \in Idx :
      /\ ret.value.centers[i].frequency = osc[ret.osc].natural_frequencies[i]
      /\ osc[ret.osc].natural_frequencies[i]
           = Mul(CENTERS[i].frequency, osc[ret.osc].base_freq)

\* the handler of some slot returns in this step
Returns(op) ==
  \E k \in DOMAIN api.slots : api.slots[k].op = op /\ api'.slots[k].op = "idle"

\* the handler of some slot is under way
UnderWay(op) == \E k \in DOMAIN api.slots : api.slots[k].op = op

\* C21: while ern_organism is None, /ern/state, /ern/evolve and
\* /ern/oracle/ask answer 400 and nothing is built or stepped; the organism
\* appears only with a successful /ern/initialize; once there it is never
\* None again, and the three endpoints are never answered 400.
C21_TwoLifecycleStates ==
  [][/\ \A op \in {"state", "evolve", "ask"} :
          Returns(op) =>
            IF api.organism.initialized
            THEN api'.response.status # 400
            ELSE api'.response.status = 400 /\ api'.organism = api.organism
     /\ (~api.organism.initialized /\ api'.organism.initialized)
          => (Returns("initialize") /\ api'.response.status = 200)
     /\ api.organism.initialized => api'.organism.initialized]_vars

\* the organism is there with recorded history, and the last of the
\* MaxRequests requests was an /ern/state answered 200
C21_Witness ==
  /\ api.organism.initialized
  /\ api.response.op = "state"
  /\ api.response.status = 200
  /\ api.served = MaxRequests
  /\ Len(api.organism.oscillator.self.phase_history) > 0

\* C28: an /ern/initialize answered 500 leaves ern_organism as it was before
\* the request: None when there was none, else the organism it had, with
\* the phases and the history of its oscillator.
C28_FailedInitializeKeepsOrganism ==
  [][(Returns("initialize") /\ api'.response.status = 500)
       => api'.organism = api.organism]_vars

\* an /ern/initialize has failed on an organism whose oscillator had
\* recorded history
C28_Witness ==
  /\ api.response.op = "initialize"
  /\ api.response.status = 500
  /\ api.response.was_initialized
  /\ api.organism.initialized
  /\ Len(api.organism.oscillator.self.phase_history) > 0

\* C27: while /ern/evolve runs, the controller, the oracle and the talking
\* ERN of the organism (each with the oscillator it owns) stay as they are;
\* while /ern/oracle/ask runs, ern_organism["oscillator"] with its history,
\* the controller and the talking ERN stay as they are.
C27_EndpointsStepTheirOwnOscillator ==
  [][/\ UnderWay("evolve") /\ api.organism.initialized
          => /\ api'.organism.controller = api.organism.controller
             /\ api'.organism.oracle = api.organism.oracle
             /\ api'.organism.talking_ern = api.organism.talking_ern
     /\ UnderWay("ask") /\ api.organism.initialized
          => /\ api'.organism.oscillator = api.organism.oscillator
             /\ api'.organism.controller = api.organism.controller
             /\ api'.organism.talking_ern = api.organism.talking_ern]_vars

\* an /ern/oracle/ask has been answered after an /ern/evolve: the oracle is
\* no longer as initialize_ern built it, the talking ERN and the controller,
\* built from the same phases, still equal each other
C27_Witness ==
  /\ api.response.op = "ask"
  /\ api.response.status = 200
  /\ Len(api.organism.oscillator.self.phase_history) > 0
  /\ api.organism.oracle # api.organism.talking_ern
  /\ api.organism.controller = api.organism.talking_ern

\* C25: at most one endpoint is under way at any time, and no /ern/state
\* returns its snapshot while the simulate of an /ern/evolve is under way.
C25_AccessSerialized ==
  /\ [](Cardinality({k \in DOMAIN api.slots : api.slots[k].op # "idle"}) <= 1)
  /\ [][Returns("state")
          => ~\E k \in DOMAIN api.slots :
                /\ api.slots[k].op = "evolve"
                /\ api.slots[k].pc = "simulate"]_vars

\* an /ern/evolve is between two iterations of its simulate, requests are
\* still to come, and no other endpoint is under way
C25_Witness ==
  /\ api.served < MaxRequests
  /\ \E k \in DOMAIN api.slots :
       /\ api.slots[k].op = "evolve"
       /\ api.slots[k].pc = "simulate"
       /\ 0 < api.slots[k].i
       /\ api.slots[k].i < api.slots[k].n
       /\ \A j \in DOMAIN api.slots : j # k => api.slots[j].op = "idle"

====
